---- MODULE Spec2Model ----
(***************************************************************************)
(* Model of the vim_mini keystroke engine (src/vim/src/engine.rs) driven   *)
(* by a host that owns a fixed text buffer (tests/support/mock_buffer.rs). *)
(* Engine::handle_event is the only operation; every step of the model is  *)
(* one call of it with an input event and a cursor chosen by the host.     *)
(***************************************************************************)
EXTENDS Naturals, Integers, Sequences, FiniteSets, TLC

VARIABLES mode, preferred_col, counts, pending, op_pending, visual_anchor,
          text, clipboard, ev, cur, pos, cmds, metadata, calls

vars == <<mode, preferred_col, counts, pending, op_pending, visual_anchor,
          text, clipboard, ev, cur, pos, cmds, metadata, calls>>

(***************************************************************************)
(* Bounds of the model.                                                    *)
(***************************************************************************)
\* A digit key is offered only while the accumulated count stays <= MaxCount.
MaxCount == 20
\* Line and column of the out-of-bounds cursor a host may pass in.
FarLine == 3
FarCol == 6

(***************************************************************************)
(* Option<T>: None is the empty sequence, Some(x) the one-element sequence.*)
(***************************************************************************)
None == <<>>
Some(x) == <<x>>
unwrap_or(o, d) == IF o = None THEN d ELSE o[1]

Min(a, b) == IF a <= b THEN a ELSE b
saturating_sub(a, b) == IF a >= b THEN a - b ELSE 0

(***************************************************************************)
(* types.rs                                                                *)
(***************************************************************************)
Position(l, c) == [line |-> l, col |-> c]
\* derive(PartialOrd, Ord) on Position: lexicographic, line first
PosLE(a, b) == a.line < b.line \/ (a.line = b.line /\ a.col <= b.col)

Normal == <<"Normal">>
Insert == <<"Insert">>
Visual(kind) == <<"Visual", kind>>
SearchPrompt == <<"SearchPrompt">>

Selection(s, e, k) == [start |-> s, end |-> e, kind |-> k]

SetCursor(p) == [cmd |-> "SetCursor", at |-> p]
SetSelection(sel) == [cmd |-> "SetSelection", sel |-> sel]
Delete(s, e) == [cmd |-> "Delete", start |-> s, end |-> e]
InsertText(p, t) == [cmd |-> "InsertText", at |-> p, text |-> t]

(***************************************************************************)
(* key.rs                                                                  *)
(***************************************************************************)
Key(c) == [t |-> "Key", code |-> "Char", ch |-> c]
KeyEsc == [t |-> "Key", code |-> "Esc", ch |-> ""]
KeyEnter == [t |-> "Key", code |-> "Enter", ch |-> ""]
KeyBackspace == [t |-> "Key", code |-> "Backspace", ch |-> ""]
ReceivedChar(c) == [t |-> "ReceivedChar", code |-> "", ch |-> c]

(***************************************************************************)
(* The host's TextOps: MockBuffer.  A buffer is the sequence of its lines  *)
(* (the rope's lines with the trailing newline removed), a line is the     *)
(* sequence of its graphemes; lines and columns are zero-based.            *)
(***************************************************************************)
Letters == {"a","b","c","d","e","f","g","h","i","j","k","l","m","n","o","p",
            "q","r","s","t","u","v","w","x","y","z","A","B","C","D","E","F",
            "G","H","I","J","K","L","M","N","O","P","Q","R","S","T","U","V",
            "W","X","Y","Z"}
Digits == {"0","1","2","3","4","5","6","7","8","9"}
DigitValue(c) == CASE c = "0" -> 0 [] c = "1" -> 1 [] c = "2" -> 2
                   [] c = "3" -> 3 [] c = "4" -> 4 [] c = "5" -> 5
                   [] c = "6" -> 6 [] c = "7" -> 7 [] c = "8" -> 8
                   [] c = "9" -> 9

is_word_char(ch) == ch \in Letters \cup Digits \cup {"_"}

line_count(T) == Len(T)

line_str(T, line) == IF line >= Len(T) THEN <<>> ELSE T[line + 1]

line_len(T, line) == Len(line_str(T, line))

\* str::trim().is_empty(): only whitespace on the line
is_blank_line(T, line) == \A i \in 1..Len(line_str(T, line)) : line_str(T, line)[i] \in {" ", "\t"}

line_start(T, line) == Position(line, 0)

line_end(T, line) ==
    LET len == line_len(T, line)
    IN  Position(line, IF len > 0 THEN len - 1 ELSE 0)

move_left(T, p, count) == Position(p.line, saturating_sub(p.col, count))

\* a move to the right that is not held to the end of the line
move_right_Unbounded(T, p, count) == Position(p.line, p.col + count)

move_right(T, p, count) == Position(p.line, Min(p.col + count, line_len(T, p.line)))

move_up(T, p, count, pc) ==
    LET line == saturating_sub(p.line, count)
        target_col == unwrap_or(pc, p.col)
        max_col == line_len(T, line)
    IN  Position(line, IF max_col > 0 THEN Min(target_col, max_col - 1) ELSE 0)

\* a move down that is not held to the last line
move_down_Unbounded(T, p, count, pc) ==
    LET line == p.line + count
        target_col == unwrap_or(pc, p.col)
        max_col == line_len(T, line)
    IN  Position(line, IF max_col > 0 THEN Min(target_col, max_col - 1) ELSE 0)

move_down(T, p, count, pc) ==
    LET line == Min(p.line + count, saturating_sub(line_count(T), 1))
        target_col == unwrap_or(pc, p.col)
        max_col == line_len(T, line)
    IN  Position(line, IF max_col > 0 THEN Min(target_col, max_col - 1) ELSE 0)

\* TextOps::clamp, the default method of the trait
clamp(T, p) ==
    LET last_line == saturating_sub(line_count(T), 1)
        line == Min(p.line, last_line)
    IN  Position(line, Min(p.col, line_len(T, line)))

\* the grapheme at a column of a line is a word character (false past the end)
word_at(T, p) ==
    /\ p.col < line_len(T, p.line)
    /\ is_word_char(line_str(T, p.line)[p.col + 1])

\* inner `loop` of next_word_start: scan forward to the next word start
RECURSIVE scan_forward(_, _, _)
scan_forward(T, p, in_word) ==
    IF p.col + 1 < line_len(T, p.line)
    THEN LET q == Position(p.line, p.col + 1)
             is_word == word_at(T, q)
         IN  IF ~in_word /\ is_word
             THEN [at |-> q, found |-> TRUE]
             ELSE scan_forward(T, q, is_word)
    ELSE IF p.line + 1 < line_count(T)
    THEN LET q == Position(p.line + 1, 0)
         IN  IF line_len(T, q.line) > 0
             THEN IF word_at(T, q)
                  THEN [at |-> q, found |-> TRUE]
                  ELSE scan_forward(T, q, FALSE)
             ELSE scan_forward(T, q, in_word)
    ELSE [at |-> p, found |-> FALSE]

RECURSIVE next_word_start(_, _, _)
next_word_start(T, p, count) ==
    IF count = 0 THEN clamp(T, p)
    ELSE LET r == scan_forward(T, p, word_at(T, p))
         IN  IF r.found THEN next_word_start(T, r.at, count - 1)
             ELSE clamp(T, r.at)

\* one step back of prev_word_start; ok = FALSE at the start of the buffer
step_back(T, p) ==
    IF p.col > 0 THEN [at |-> Position(p.line, p.col - 1), ok |-> TRUE]
    ELSE IF p.line > 0
    THEN [at |-> Position(p.line - 1, saturating_sub(line_len(T, p.line - 1), 1)),
          ok |-> TRUE]
    ELSE [at |-> Position(0, 0), ok |-> FALSE]

\* inner `loop` of prev_word_start: scan backward to a word start
RECURSIVE scan_backward(_, _)
scan_backward(T, p) ==
    IF /\ word_at(T, p)
       /\ (p.col = 0 \/ ~word_at(T, Position(p.line, p.col - 1)))
    THEN [at |-> p, found |-> TRUE]
    ELSE LET b == step_back(T, p)
         IN  IF b.ok THEN scan_backward(T, b.at)
             ELSE [at |-> Position(0, 0), found |-> FALSE]

RECURSIVE prev_word_start(_, _, _)
prev_word_start(T, p, count) ==
    IF count = 0 THEN clamp(T, p)
    ELSE LET b == step_back(T, p)
         IN  IF ~b.ok THEN Position(0, 0)
             ELSE LET r == scan_backward(T, b.at)
                  IN  IF r.found THEN prev_word_start(T, r.at, count - 1)
                      ELSE Position(0, 0)

RECURSIVE skip_lines_forward(_, _, _)
skip_lines_forward(T, line, blank) ==
    IF line < line_count(T) /\ is_blank_line(T, line) = blank
    THEN skip_lines_forward(T, line + 1, blank)
    ELSE line

RECURSIVE next_paragraph_line(_, _, _, _)
next_paragraph_line(T, line, found, count) ==
    IF found < count /\ line < line_count(T)
    THEN LET l1 == skip_lines_forward(T, line, FALSE)
             l2 == skip_lines_forward(T, l1, TRUE)
         IN  IF l2 < line_count(T)
             THEN IF found + 1 = count THEN l2
                  ELSE next_paragraph_line(T, l2, found + 1, count)
             ELSE next_paragraph_line(T, l2, found, count)
    ELSE line

next_paragraph_start(T, p, count) ==
    LET l == next_paragraph_line(T, p.line, 0, count)
    IN  line_start(T, IF l >= line_count(T)
                      THEN saturating_sub(line_count(T), 1) ELSE l)

RECURSIVE skip_lines_backward(_, _, _)
skip_lines_backward(T, line, blank) ==
    IF line > 0 /\ is_blank_line(T, line) = blank
    THEN skip_lines_backward(T, line - 1, blank)
    ELSE line

RECURSIVE paragraph_first_line(_, _)
paragraph_first_line(T, line) ==
    IF line > 0 /\ ~is_blank_line(T, line - 1)
    THEN paragraph_first_line(T, line - 1)
    ELSE line

RECURSIVE prev_paragraph_line(_, _, _, _)
prev_paragraph_line(T, line, found, count) ==
    IF found < count /\ line > 0
    THEN LET l0 == line - 1
             l1 == skip_lines_backward(T, l0, FALSE)
             l2 == skip_lines_backward(T, l1, TRUE)
             l3 == paragraph_first_line(T, l2)
         IN  prev_paragraph_line(T, l3, found + 1, count)
    ELSE line

prev_paragraph_start(T, p, count) ==
    line_start(T, prev_paragraph_line(T, p.line, 0, count))

\* the columns after p.col whose grapheme contains ch, in increasing order
RECURSIVE matches_from(_, _, _)
matches_from(line, col, ch) ==
    IF col >= Len(line) THEN <<>>
    ELSE (IF line[col + 1] = ch THEN <<col>> ELSE <<>>)
         \o matches_from(line, col + 1, ch)

\* the `before` flag is ignored by the host: always the match itself
find_in_line(T, p, ch, before, count) ==
    LET m == matches_from(line_str(T, p.line), p.col + 1, ch)
    IN  IF count >= 1 /\ Len(m) >= count
        THEN Some(Position(p.line, m[count]))
        ELSE None

(***************************************************************************)
(* engine.rs: the Engine and its handle_event.  An engine value is the     *)
(* record of the struct's fields; every arm of handle_event is an operator *)
(* from the engine (and the text, the clamped cursor, the key) to the      *)
(* engine after the call, the returned position and the returned commands. *)
(***************************************************************************)
PendingNone == <<"None">>
PendingG == <<"G">>
PendingD == <<"D">>
PendingF(before) == <<"F", before>>

Engine(m, pc, c, p, op, va) ==
    [mode |-> m, preferred_col |-> pc, counts |-> c, pending |-> p,
     op_pending |-> op, visual_anchor |-> va]

\* Engine::new() = EngineBuilder::default().build()
EngineNew == Engine(Normal, None, None, PendingNone, None, None)

Ret(e, p, c) == [eng |-> e, pos |-> p, cmds |-> c]

\* Counts::push_digit (the saturation at u32::MAX lies beyond MaxCount)
push_digit(current, d) == Some(unwrap_or(current, 0) * 10 + d)

\* Counts::take_or: the value; the caller's engine gets counts = None
take_or(current, default_) ==
    LET v == unwrap_or(current, default_)
    IN  IF v >= 1 THEN v ELSE 1

\* a clear_pending that keeps the pending key
clear_pending_Keep(e) == e

clear_pending(e) == [e EXCEPT !.pending = PendingNone]

clear_op(e) == [e EXCEPT !.op_pending = None]

\* apply_delete without the normalisation of the two ends
apply_delete_Unordered(start, end) == <<Delete(start, end)>>

apply_delete(start, end) ==
    IF PosLE(start, end) THEN <<Delete(start, end)>> ELSE <<Delete(end, start)>>

\* a line number taken as typed, neither turned 0-based nor held to the
\* last line
goto_line_AsTyped(T, count, default_) ==
    IF count # None /\ count[1] > 0 THEN count[1] ELSE default_

\* target line of gg / G: `Some(n) if n > 0 => (n-1).min(last)`, else default_
goto_line(T, count, default_) ==
    IF count # None /\ count[1] > 0
    THEN Min(count[1] - 1, saturating_sub(line_count(T), 1))
    ELSE default_

\* Insert mode that breaks the line on Enter
InsertKey_EnterBreaksLine(e, cursor, ke) ==
    IF ke.code = "Esc"
    THEN Ret([e EXCEPT !.mode = Normal], cursor, <<>>)
    ELSE IF ke.code = "Enter"
    THEN Ret(e, Position(cursor.line + 1, 0), <<InsertText(cursor, "\n")>>)
    ELSE Ret(e, cursor, <<>>)

\* Esc in Insert mode that also forgets the preferred column
InsertKey_ClearColumn(e, cursor, ke) ==
    IF ke.code = "Esc"
    THEN Ret([e EXCEPT !.mode = Normal, !.preferred_col = None], cursor, <<>>)
    ELSE Ret(e, cursor, <<>>)

InsertKey(e, cursor, ke) ==
    IF ke.code = "Esc"
    THEN Ret([e EXCEPT !.mode = Normal], cursor, <<>>)
    ELSE Ret(e, cursor, <<>>)

\* a character inserted without advancing the cursor
InsertReceivedChar_Stay(e, cursor, ch) ==
    Ret(e, cursor, <<InsertText(cursor, ch)>>)

InsertReceivedChar(e, cursor, ch) ==
    Ret(e, Position(cursor.line, cursor.col + 1), <<InsertText(cursor, ch)>>)

\* (PendingKey::G, 'g')
NormalPendingG(e, T) ==
    LET target_line == goto_line(T, e.counts, 0)
        p == line_start(T, target_line)
    IN  Ret([e EXCEPT !.pending = PendingNone, !.counts = None,
                      !.preferred_col = Some(0)],
            p, <<SetCursor(p)>>)

\* dd without the clamp to the last line of the buffer
dd_end_line_Unclamped(T, cursor, count) == cursor.line + count - 1

\* last line deleted by dd
dd_end_line(T, cursor, count) ==
    Min(cursor.line + count - 1, saturating_sub(line_count(T), 1))

\* (PendingKey::D, 'd')
NormalPendingD(e, T, cursor) ==
    LET count == take_or(e.counts, 1)
        start == line_start(T, cursor.line)
        end == line_end(T, dd_end_line(T, cursor, count))
        end_pos == Position(end.line + 1, 0)
    IN  Ret([e EXCEPT !.pending = PendingNone, !.op_pending = None,
                      !.counts = None],
            start, apply_delete(start, end_pos))

\* d f<ch> treated as exclusive, like d t<ch>
find_delete_end_Exclusive(T, p, before) == p

\* end of the range of d f<ch> / d t<ch>
find_delete_end(T, p, before) == IF before THEN p ELSE move_right(T, p, 1)

\* a find whose miss leaves the pending operator in place
NormalPendingF_KeepOp(e, T, cursor, ch, before) ==
    LET count == take_or(e.counts, 1)
        e1 == [e EXCEPT !.pending = PendingNone, !.counts = None]
        found == find_in_line(T, cursor, ch, before, count)
    IN  IF found # None
        THEN IF e1.op_pending # None
             THEN Ret(clear_op(e1), cursor,
                      IF e1.op_pending[1] = "Delete"
                      THEN apply_delete(cursor, find_delete_end(T, found[1], before))
                      ELSE <<>>)
             ELSE Ret([e1 EXCEPT !.preferred_col = None], found[1],
                      <<SetCursor(found[1])>>)
        ELSE Ret(e1, cursor, <<>>)

\* (PendingKey::F { before }, Char(ch))
NormalPendingF(e, T, cursor, ch, before) ==
    LET count == take_or(e.counts, 1)
        e1 == [e EXCEPT !.pending = PendingNone, !.counts = None]
        found == find_in_line(T, cursor, ch, before, count)
    IN  IF found # None
        THEN IF e1.op_pending # None
             THEN Ret(clear_op(e1), cursor,
                      IF e1.op_pending[1] = "Delete"
                      THEN apply_delete(cursor, find_delete_end(T, found[1], before))
                      ELSE <<>>)
             ELSE Ret([e1 EXCEPT !.preferred_col = None], found[1],
                      <<SetCursor(found[1])>>)
        ELSE Ret(clear_op(e1), cursor, <<>>)

\* keys the operator-pending `match` resolves to a motion (handled = true)
OperatorMotionKeys == {"h", "l", "k", "j", "0", "$", "w", "b", "{", "}"}

\* the operator-pending `match` with '$' left exclusive under Delete
OperatorMotionEnd_Exclusive(T, cursor, ch, count, op) ==
    CASE ch = "h" -> move_left(T, cursor, count)
      [] ch = "l" -> move_right(T, cursor, count)
      [] ch = "k" -> move_up(T, cursor, count, None)
      [] ch = "j" -> move_down(T, cursor, count, None)
      [] ch = "0" -> line_start(T, cursor.line)
      [] ch = "$" -> line_end(T, cursor.line)
      [] ch = "w" -> next_word_start(T, cursor, count)
      [] ch = "b" -> prev_word_start(T, cursor, count)
      [] ch = "{" -> prev_paragraph_start(T, cursor, count)
      [] ch = "}" -> next_paragraph_start(T, cursor, count)

\* `end` of the operator-pending `match`
OperatorMotionEnd(T, cursor, ch, count, op) ==
    CASE ch = "h" -> move_left(T, cursor, count)
      [] ch = "l" -> move_right(T, cursor, count)
      [] ch = "k" -> move_up(T, cursor, count, None)
      [] ch = "j" -> move_down(T, cursor, count, None)
      [] ch = "0" -> line_start(T, cursor.line)
      [] ch = "$" -> IF op = "Delete"
                     THEN move_right(T, line_end(T, cursor.line), 1)
                     ELSE line_end(T, cursor.line)
      [] ch = "w" -> next_word_start(T, cursor, count)
      [] ch = "b" -> prev_word_start(T, cursor, count)
      [] ch = "{" -> prev_paragraph_start(T, cursor, count)
      [] ch = "}" -> next_paragraph_start(T, cursor, count)

\* the cursor left where it was after an operator
OperatorCursor_Stay(cursor, end) == cursor

\* `let new_cursor = if cursor <= end { cursor } else { end }`
OperatorCursor(cursor, end) == IF PosLE(cursor, end) THEN cursor ELSE end

\* the operator applied to whole lines, from the first line of the range to
\* the line after its last
OperatorComplete_WholeLines(e, T, cursor, ch, count) ==
    LET op == e.op_pending[1]
        end == OperatorMotionEnd(T, cursor, ch, count, op)
        lo == IF PosLE(cursor, end) THEN cursor ELSE end
        hi == IF PosLE(cursor, end) THEN end ELSE cursor
        c == IF op = "Delete"
             THEN apply_delete(Position(lo.line, 0), Position(hi.line + 1, 0))
             ELSE <<>>
    IN  Ret(clear_op(e), OperatorCursor(cursor, end), c)

\* `if handled { ... }`: the operator applied to the motion's range
OperatorComplete(e, T, cursor, ch, count) ==
    LET op == e.op_pending[1]
        end == OperatorMotionEnd(T, cursor, ch, count, op)
        c == IF op = "Delete" THEN apply_delete(cursor, end) ELSE <<>>
    IN  Ret(clear_op(e), OperatorCursor(cursor, end), c)

\* a motion result whose SetCursor names the start of the line instead of the
\* position returned
Moved_StaleCursor(e, p) == Ret(e, p, <<SetCursor(Position(p.line, 0))>>)

\* a motion arm that returns the position without the SetCursor command
Moved_Silent(e, p) == Ret(e, p, <<>>)

\* a motion arm of the final `match`: the result and the command it emits
Moved(e, p) == Ret(e, p, <<SetCursor(p)>>)

\* Esc that steps one column left, as on leaving Insert mode in vim
NormalEsc_StepLeft(e, cursor) ==
    Ret([e EXCEPT !.counts = None, !.pending = PendingNone,
                  !.preferred_col = None],
        Position(cursor.line, saturating_sub(cursor.col, 1)), <<>>)

NormalEsc(e, cursor) ==
    Ret([e EXCEPT !.counts = None, !.pending = PendingNone,
                  !.preferred_col = None],
        cursor, <<>>)

\* 'i', 'a', 'I', 'A'
NormalInsertSwitch(e, T, cursor, ch) ==
    LET e1 == [e EXCEPT !.mode = Insert, !.counts = None,
                        !.pending = PendingNone]
    IN  CASE ch = "i" -> Ret(e1, cursor, <<>>)
          [] ch = "a" -> Moved(e1, move_right(T, cursor, 1))
          [] ch = "I" -> Moved([e1 EXCEPT !.preferred_col = Some(0)],
                               line_start(T, cursor.line))
          [] ch = "A" -> Moved([e1 EXCEPT !.preferred_col = None],
                               move_right(T, line_end(T, cursor.line), 1))

\* 'v', 'V'
NormalVisualSwitch(e, T, cursor, ch) ==
    LET kind == IF ch = "v" THEN "CharWise" ELSE "LineWise"
        e1 == [e EXCEPT !.mode = Visual(kind), !.visual_anchor = Some(cursor),
                        !.pending = PendingNone, !.op_pending = None]
    IN  IF ch = "v"
        THEN Ret(e1, cursor,
                 <<SetSelection(Some(Selection(cursor, cursor, "CharWise")))>>)
        ELSE Ret(e1, cursor,
                 <<SetSelection(Some(Selection(line_start(T, cursor.line),
                                               line_end(T, cursor.line),
                                               "LineWise")))>>)

\* 'x' that emits its Delete even when the range is empty
NormalX_AlwaysDelete(e, T, cursor) ==
    LET count == take_or(e.counts, 1)
        e1 == [e EXCEPT !.counts = None]
    IN  Ret(e1, cursor, apply_delete(cursor, move_right(T, cursor, count)))

\* 'x'
NormalX(e, T, cursor) ==
    LET count == take_or(e.counts, 1)
        e1 == [e EXCEPT !.counts = None]
        end == move_right(T, cursor, count)
    IN  IF end = cursor THEN Ret(e1, cursor, <<>>)
        ELSE Ret(e1, cursor, apply_delete(cursor, end))

\* the final `match ke.code` of Normal mode ("Motions and mode switches")
NormalCommand(e, T, cursor, ke) ==
    LET count == take_or(e.counts, 1)
        taken == [e EXCEPT !.counts = None]
        ch == ke.ch
    IN  IF ke.code = "Esc" THEN NormalEsc(e, cursor)
        ELSE IF ke.code # "Char" THEN Ret(clear_pending(e), cursor, <<>>)
        ELSE CASE ch \in {"h", "l"} ->
                    Moved([taken EXCEPT !.preferred_col = None],
                          IF ch = "h" THEN move_left(T, cursor, count)
                          ELSE move_right(T, cursor, count))
               [] ch \in {"k", "j"} ->
                    LET p == IF ch = "k"
                             THEN move_up(T, cursor, count, e.preferred_col)
                             ELSE move_down(T, cursor, count, e.preferred_col)
                    IN  Moved([taken EXCEPT !.preferred_col = Some(p.col)], p)
               [] ch = "0" ->
                    Moved([taken EXCEPT !.preferred_col = Some(0)],
                          line_start(T, cursor.line))
               [] ch = "$" ->
                    Moved([taken EXCEPT !.preferred_col = None],
                          line_end(T, cursor.line))
               [] ch = "g" -> Ret([e EXCEPT !.pending = PendingG], cursor, <<>>)
               [] ch = "G" ->
                    Moved([taken EXCEPT !.preferred_col = Some(0)],
                          line_start(T, goto_line(T, e.counts,
                                         saturating_sub(line_count(T), 1))))
               [] ch = "d" ->
                    Ret([e EXCEPT !.pending = PendingD,
                                  !.op_pending = Some("Delete")], cursor, <<>>)
               [] ch = "y" ->
                    Ret([e EXCEPT !.op_pending = Some("Yank")], cursor, <<>>)
               [] ch = "x" -> NormalX(e, T, cursor)
               [] ch \in {"v", "V"} -> NormalVisualSwitch(e, T, cursor, ch)
               [] ch \in {"w", "b"} ->
                    Moved([taken EXCEPT !.preferred_col = None],
                          IF ch = "w" THEN next_word_start(T, cursor, count)
                          ELSE prev_word_start(T, cursor, count))
               [] ch \in {"{", "}"} ->
                    Moved([taken EXCEPT !.preferred_col = Some(0)],
                          IF ch = "{" THEN prev_paragraph_start(T, cursor, count)
                          ELSE next_paragraph_start(T, cursor, count))
               [] ch \in {"f", "t"} ->
                    Ret([e EXCEPT !.pending = PendingF(ch = "t")], cursor, <<>>)
               [] ch \in {"i", "a", "I", "A"} ->
                    NormalInsertSwitch(e, T, cursor, ch)
               [] OTHER -> Ret(clear_pending(e), cursor, <<>>)

\* "If operator is pending, next motion resolves a range"
NormalOperator(e, T, cursor, ke) ==
    IF e.op_pending = None THEN NormalCommand(e, T, cursor, ke)
    ELSE LET count == take_or(e.counts, 1)
             e1 == [e EXCEPT !.counts = None]
         IN  IF ke.code = "Char" /\ ke.ch \in OperatorMotionKeys
             THEN OperatorComplete(e1, T, cursor, ke.ch, count)
             ELSE IF ke.code = "Char" /\ ke.ch \in {"f", "t"}
             THEN NormalCommand([e1 EXCEPT !.pending = PendingF(ke.ch = "t")],
                                T, cursor, ke)
             ELSE NormalCommand(e1, T, cursor, ke)

\* "Count digits"
NormalDigit(e, T, cursor, ke) ==
    IF ke.code = "Char" /\ ke.ch \in Digits
    THEN IF ke.ch = "0" /\ e.counts = None /\ e.op_pending = None
         THEN Moved([e EXCEPT !.preferred_col = Some(0)],
                    line_start(T, cursor.line))
         ELSE IF ke.ch = "0" /\ e.counts = None /\ e.op_pending # None
         THEN NormalOperator(e, T, cursor, ke)
         ELSE Ret([e EXCEPT !.counts = push_digit(e.counts, DigitValue(ke.ch))],
                  cursor, <<>>)
    ELSE NormalOperator(e, T, cursor, ke)

\* Normal mode without the arm that drops a pending key the event does not
\* complete
NormalKey_KeepPending(e, T, cursor, ke) ==
    IF e.pending = PendingG /\ ke.code = "Char" /\ ke.ch = "g"
    THEN NormalPendingG(e, T)
    ELSE IF e.pending = PendingD /\ ke.code = "Char" /\ ke.ch = "d"
    THEN NormalPendingD(e, T, cursor)
    ELSE IF e.pending[1] = "F" /\ ke.code = "Char"
    THEN NormalPendingF(e, T, cursor, ke.ch, e.pending[2])
    ELSE NormalDigit(e, T, cursor, ke)

\* (Mode::Normal, InputEvent::Key(ke)): "Handle pending sequences" first
NormalKey(e, T, cursor, ke) ==
    IF e.pending = PendingG /\ ke.code = "Char" /\ ke.ch = "g"
    THEN NormalPendingG(e, T)
    ELSE IF e.pending = PendingD /\ ke.code = "Char" /\ ke.ch = "d"
    THEN NormalPendingD(e, T, cursor)
    ELSE IF e.pending[1] = "F" /\ ke.code = "Char"
    THEN NormalPendingF(e, T, cursor, ke.ch, e.pending[2])
    ELSE NormalDigit(clear_pending(e), T, cursor, ke)

\* Esc in Visual mode that leaves the host's selection in place
VisualEsc_Silent(e, cursor) ==
    Ret([e EXCEPT !.mode = Normal, !.visual_anchor = None,
                  !.pending = PendingNone],
        cursor, <<>>)

\* leaving Visual: Esc, 'v' in CharWise, 'V' in LineWise
VisualEsc(e, cursor) ==
    Ret([e EXCEPT !.mode = Normal, !.visual_anchor = None,
                  !.pending = PendingNone],
        cursor, <<SetSelection(None)>>)

\* toggling Visual off while keeping the anchor
VisualToggleOff_KeepAnchor(e, cursor) ==
    Ret([e EXCEPT !.mode = Normal], cursor, <<SetSelection(None)>>)

VisualToggleOff(e, cursor) ==
    Ret([e EXCEPT !.mode = Normal, !.visual_anchor = None],
        cursor, <<SetSelection(None)>>)

\* the (start_line, end_line) pair of a linewise selection
line_span(anchor, cursor) ==
    IF anchor.line <= cursor.line THEN <<anchor.line, cursor.line>>
    ELSE <<cursor.line, anchor.line>>

\* a selection that runs from the anchor to the cursor without ordering them
visual_selection_Unordered(T, kind, anchor, cursor) ==
    IF kind = "CharWise"
    THEN Selection(anchor, cursor, "CharWise")
    ELSE Selection(line_start(T, anchor.line), line_end(T, cursor.line), "LineWise")

\* the selection between the anchor and the cursor
visual_selection(T, kind, anchor, cursor) ==
    IF kind = "CharWise"
    THEN IF PosLE(anchor, cursor) THEN Selection(anchor, cursor, "CharWise")
         ELSE Selection(cursor, anchor, "CharWise")
    ELSE LET span == line_span(anchor, cursor)
         IN  Selection(line_start(T, span[1]), line_end(T, span[2]), "LineWise")

\* 'V' in CharWise: switch to LineWise, keep the anchor
VisualToLineWise(e, T, cursor) ==
    LET e1 == [e EXCEPT !.mode = Visual("LineWise")]
    IN  IF e.visual_anchor # None
        THEN Ret(e1, cursor,
                 <<SetSelection(Some(visual_selection(T, "LineWise",
                                         e.visual_anchor[1], cursor)))>>)
        ELSE Ret(e1, cursor, <<>>)

VisualMotionKeys == {"h", "j", "k", "l", "0", "$", "g", "G", "w", "b", "{", "}"}

\* the motion arm of Visual mode: engine after the motion and new_cursor
VisualMotionTarget(e, T, cursor, ch) ==
    LET count == take_or(e.counts, 1)
        e1 == [e EXCEPT !.counts = None]
    IN  CASE ch = "h" -> [eng |-> e1, at |-> move_left(T, cursor, count)]
          [] ch = "l" -> [eng |-> e1, at |-> move_right(T, cursor, count)]
          [] ch \in {"k", "j"} ->
               LET p == IF ch = "k"
                        THEN move_up(T, cursor, count, e.preferred_col)
                        ELSE move_down(T, cursor, count, e.preferred_col)
               IN  [eng |-> [e1 EXCEPT !.preferred_col = Some(p.col)], at |-> p]
          [] ch = "0" -> [eng |-> [e1 EXCEPT !.preferred_col = Some(0)],
                          at |-> line_start(T, cursor.line)]
          [] ch = "$" -> [eng |-> [e1 EXCEPT !.preferred_col = None],
                          at |-> line_end(T, cursor.line)]
          [] ch = "g" -> [eng |-> [e1 EXCEPT !.pending = PendingNone,
                                             !.preferred_col = Some(0)],
                          at |-> line_start(T, goto_line(T, e1.counts, 0))]
          [] ch = "G" -> [eng |-> [e1 EXCEPT !.preferred_col = Some(0)],
                          at |-> line_start(T, goto_line(T, e1.counts,
                                         saturating_sub(line_count(T), 1)))]
          [] ch = "w" -> [eng |-> [e1 EXCEPT !.preferred_col = None],
                          at |-> next_word_start(T, cursor, count)]
          [] ch = "b" -> [eng |-> [e1 EXCEPT !.preferred_col = None],
                          at |-> prev_word_start(T, cursor, count)]
          [] ch = "{" -> [eng |-> [e1 EXCEPT !.preferred_col = Some(0)],
                          at |-> prev_paragraph_start(T, cursor, count)]
          [] ch = "}" -> [eng |-> [e1 EXCEPT !.preferred_col = Some(0)],
                          at |-> next_paragraph_start(T, cursor, count)]

VisualMotion(e, T, cursor, kind, ch) ==
    IF ch = "g" /\ e.pending # PendingG
    THEN Ret([e EXCEPT !.counts = None, !.pending = PendingG], cursor, <<>>)
    ELSE LET m == VisualMotionTarget(e, T, cursor, ch)
         IN  IF e.visual_anchor # None
             THEN Ret(m.eng, m.at,
                      <<SetCursor(m.at),
                        SetSelection(Some(visual_selection(T, kind,
                                              e.visual_anchor[1], m.at)))>>)
             ELSE Ret(m.eng, cursor, <<>>)

\* the range of a Visual 'd' without the extension by one grapheme
visual_delete_range_Exclusive(T, kind, anchor, cursor) ==
    IF kind = "CharWise"
    THEN LET sel == visual_selection(T, "CharWise", anchor, cursor)
         IN  <<sel.start, sel.end>>
    ELSE LET span == line_span(anchor, cursor)
         IN  <<line_start(T, span[1]), Position(span[2] + 1, 0)>>

\* the (start, end) of the range deleted by 'd' in Visual mode
visual_delete_range(T, kind, anchor, cursor) ==
    IF kind = "CharWise"
    THEN LET sel == visual_selection(T, "CharWise", anchor, cursor)
         IN  <<sel.start, move_right(T, sel.end, 1)>>
    ELSE LET span == line_span(anchor, cursor)
         IN  <<line_start(T, span[1]), Position(span[2] + 1, 0)>>

VisualDelete(e, T, cursor, kind) ==
    IF e.visual_anchor # None
    THEN LET selection == visual_delete_range(T, kind, e.visual_anchor[1], cursor)
         IN  Ret([e EXCEPT !.mode = Normal, !.visual_anchor = None],
                 selection[1],
                 apply_delete(selection[1], selection[2])
                     \o <<SetSelection(None)>>)
    ELSE Ret(e, cursor, <<>>)

\* (Mode::Visual(kind), InputEvent::Key(ke))
VisualKey(e, T, cursor, kind, ke) ==
    IF ke.code = "Esc" THEN VisualEsc(e, cursor)
    ELSE IF ke.code # "Char" THEN Ret(e, cursor, <<>>)
    ELSE CASE ke.ch = "v" /\ kind = "CharWise" -> VisualToggleOff(e, cursor)
           [] ke.ch = "V" /\ kind = "LineWise" -> VisualToggleOff(e, cursor)
           [] ke.ch = "V" /\ kind # "LineWise" -> VisualToLineWise(e, T, cursor)
           [] ke.ch \in VisualMotionKeys -> VisualMotion(e, T, cursor, kind, ke.ch)
           [] ke.ch = "d" -> VisualDelete(e, T, cursor, kind)
           [] OTHER -> Ret(e, cursor, <<>>)

\* handle_event without the clamp that opens it
handle_event_Unclamped(e, T, cursor0, input) ==
    LET cursor == cursor0
    IN  CASE e.mode = Insert /\ input.t = "Key" -> InsertKey(e, cursor, input)
          [] e.mode = Insert /\ input.t = "ReceivedChar" ->
               InsertReceivedChar(e, cursor, input.ch)
          [] e.mode = Normal /\ input.t = "Key" -> NormalKey(e, T, cursor, input)
          [] e.mode[1] = "Visual" /\ input.t = "Key" ->
               VisualKey(e, T, cursor, e.mode[2], input)
          [] OTHER -> Ret(e, cursor, <<>>)

\* Engine::handle_event
handle_event(e, T, cursor0, input) ==
    LET cursor == clamp(T, cursor0)
    IN  CASE e.mode = Insert /\ input.t = "Key" -> InsertKey(e, cursor, input)
          [] e.mode = Insert /\ input.t = "ReceivedChar" ->
               InsertReceivedChar(e, cursor, input.ch)
          [] e.mode = Normal /\ input.t = "Key" -> NormalKey(e, T, cursor, input)
          [] e.mode[1] = "Visual" /\ input.t = "Key" ->
               VisualKey(e, T, cursor, e.mode[2], input)
          [] OTHER -> Ret(e, cursor, <<>>)

(***************************************************************************)
(* The host: a fixed buffer, the keys it sends and the cursor it passes.   *)
(***************************************************************************)
\* "ld d\n\ndl": two words on a line, a blank line, a second paragraph
TextBuffer == << <<"l", "d", " ", "d">>, <<>>, <<"d", "l">> >>
\* "": the rope of the empty text has one empty line
EmptyBuffer == << <<>> >>
\* a host whose line_count() is 0 (allowed by the TextOps contract)
ZeroLineBuffer == << >>

Buffers == {TextBuffer, EmptyBuffer, ZeroLineBuffer}

Chars == {"h", "j", "k", "l", "0", "$", "w", "b", "{", "}", "g", "G", "d",
          "y", "x", "v", "V", "f", "t", "i", "a", "I", "A", "2", "p",
          "/"}

KeyEvents == {Key(c) : c \in Chars} \cup {KeyEsc, KeyEnter, KeyBackspace}

CharEvents == {ReceivedChar("x")}

NoEvent == [t |-> "None", code |-> "", ch |-> ""]

\* the cursor the host passes: the one returned by the previous call or a
\* position outside every buffer
HostCursors == {pos, Position(FarLine, FarCol)}

\* MockClipboard::new(): the host's clipboard starts empty; handle_event is
\* not given the clipboard
MockClipboardNew == None

engine == Engine(mode, preferred_col, counts, pending, op_pending, visual_anchor)

Init ==
    /\ mode = EngineNew.mode
    /\ preferred_col = EngineNew.preferred_col
    /\ counts = EngineNew.counts
    /\ pending = EngineNew.pending
    /\ op_pending = EngineNew.op_pending
    /\ visual_anchor = EngineNew.visual_anchor
    /\ text \in Buffers
    /\ clipboard = MockClipboardNew
    /\ ev = NoEvent
    /\ cur = Position(0, 0)
    /\ pos = Position(0, 0)
    /\ cmds = <<>>
    /\ metadata = None
    /\ calls = <<>>

\* one call of handle_event(&text, cursor, input)
Handle(input, cursor) ==
    \E r \in {handle_event(engine, text, cursor, input)} :
        /\ unwrap_or(r.eng.counts, 0) <= MaxCount
        /\ mode' = r.eng.mode
        /\ preferred_col' = r.eng.preferred_col
        /\ counts' = r.eng.counts
        /\ pending' = r.eng.pending
        /\ op_pending' = r.eng.op_pending
        /\ visual_anchor' = r.eng.visual_anchor
        /\ ev' = input
        /\ cur' = cursor
        /\ pos' = r.pos
        /\ cmds' = r.cmds
        /\ UNCHANGED <<text, clipboard, metadata, calls>>

PressKey == \E input \in KeyEvents, cursor \in HostCursors : Handle(input, cursor)

TypeChar == \E input \in CharEvents, cursor \in HostCursors : Handle(input, cursor)

Next == PressKey \/ TypeChar

Spec == Init /\ [][Next]_vars

(***************************************************************************)
(* Counts at their full width.  Counts.current is a u32; a value of the   *)
(* type is kept as two 16-bit limbs <<hi, lo>>, so that sums and products  *)
(* up to 2^32 - 1 and their carries can be computed.  The definitions of   *)
(* this section are the Normal-mode path of handle_event for the keys a    *)
(* host sends in SpecU32: digits, d, h and Esc.  A handler yields the set  *)
(* of its outcomes: an arithmetic overflow panics in a build with overflow *)
(* checks and wraps in a build without them.                               *)
(***************************************************************************)
Limb == 2^16
\* the u32 of a number below 2^31
U32(n) == <<n \div Limb, n % Limb>>
U32_MAX == <<Limb - 1, Limb - 1>>
u32_le(a, b) == a[1] < b[1] \/ (a[1] = b[1] /\ a[2] <= b[2])
u32_min(a, b) == IF u32_le(a, b) THEN a ELSE b
u32_max(a, b) == IF u32_le(a, b) THEN b ELSE a

\* a + b modulo 2^32, and whether the sum left the type
overflowing_add(a, b) ==
    LET lo == a[2] + b[2]
        hi == a[1] + b[1] + (lo \div Limb)
    IN  [value |-> <<hi % Limb, lo % Limb>>, overflow |-> hi >= Limb]

\* a - b modulo 2^32, and whether the difference left the type
overflowing_sub(a, b) ==
    LET borrow == IF a[2] < b[2] THEN 1 ELSE 0
        lo == a[2] + borrow * Limb - b[2]
        hi == a[1] - b[1] - borrow
    IN  [value |-> <<(hi + Limb) % Limb, lo>>, overflow |-> hi < 0]

\* u32::saturating_mul by a factor below 2^15
saturating_mul(a, k) ==
    LET lo == a[2] * k
        hi == a[1] * k + (lo \div Limb)
    IN  IF hi >= Limb THEN U32_MAX ELSE <<hi, lo % Limb>>

\* u32::saturating_add
saturating_add(a, b) ==
    LET s == overflowing_add(a, b)
    IN  IF s.overflow THEN U32_MAX ELSE s.value

\* u32::saturating_sub of a column and a count
saturating_sub_u32(a, b) ==
    LET d == overflowing_sub(a, b)
    IN  IF d.overflow THEN U32(0) ELSE d.value

\* a push_digit that multiplies and adds modulo 2^32
push_digit_u32_Wrapping(current, d) ==
    LET c == unwrap_or(current, U32(0))
        lo == c[2] * 10 + d
        hi == c[1] * 10 + (lo \div Limb)
    IN  Some(<<hi % Limb, lo % Limb>>)

\* Counts::push_digit on the u32
push_digit_u32(current, d) ==
    Some(saturating_add(saturating_mul(unwrap_or(current, U32(0)), 10), U32(d)))

\* Counts::take_or on the u32
take_or_u32(current, default_) == u32_max(unwrap_or(current, default_), U32(1))

\* MockBuffer::move_left with a u32 count
move_left_u32(T, p, count) ==
    Position(p.line, saturating_sub_u32(U32(p.col), count)[2])

\* an outcome of handle_event: the engine, the position and commands
\* returned, the counts handed to TextOps operations, and whether the call
\* panicked instead of returning
RetU32(e, p, c, given) ==
    [eng |-> e, pos |-> p, cmds |-> c, given |-> given, panicked |-> FALSE]
PanicU32(e, p) ==
    [eng |-> e, pos |-> p, cmds |-> <<>>, given |-> <<>>, panicked |-> TRUE]

\* `(cursor.line + count - 1).min(text.line_count().saturating_sub(1))`:
\* the lines the u32 expression can yield, None for a panic on overflow
dd_end_line_u32(T, cursor, count) ==
    LET sum == overflowing_add(U32(cursor.line), count)
        dif == overflowing_sub(sum.value, U32(1))
        last == U32(saturating_sub(line_count(T), 1))
        line == Some(u32_min(dif.value, last)[2])
    IN  IF sum.overflow \/ dif.overflow THEN {None, line} ELSE {line}

\* (PendingKey::D, KeyCode::Char('d')) with the u32 count
NormalPendingDU32(e, T, cursor) ==
    LET count == take_or_u32(e.counts, U32(1))
        e1 == [e EXCEPT !.pending = PendingNone, !.op_pending = None,
                        !.counts = None]
        start == line_start(T, cursor.line)
    IN  { IF l = None THEN PanicU32(e1, cursor)
          ELSE RetU32(e1, start,
                      apply_delete(start,
                                   Position(line_end(T, l[1]).line + 1, 0)),
                      <<>>)
          : l \in dd_end_line_u32(T, cursor, count) }

\* the final `match ke.code` of Normal mode for Esc, h and d
NormalCommandU32(e, T, cursor, ke) ==
    LET count == take_or_u32(e.counts, U32(1))
        taken == [e EXCEPT !.counts = None]
        n == IF ke.code = "Esc" THEN NormalEsc(e, cursor)
             ELSE Ret([e EXCEPT !.pending = PendingD,
                                !.op_pending = Some("Delete")], cursor, <<>>)
    IN  IF ke.code = "Char" /\ ke.ch = "h"
        THEN LET p == move_left_u32(T, cursor, count)
             IN  RetU32([taken EXCEPT !.preferred_col = None], p,
                        <<SetCursor(p)>>, <<count>>)
        ELSE RetU32(n.eng, n.pos, n.cmds, <<>>)

\* "If operator is pending, next motion resolves a range", motions h and 0
NormalOperatorU32(e, T, cursor, ke) ==
    IF e.op_pending = None THEN NormalCommandU32(e, T, cursor, ke)
    ELSE LET count == take_or_u32(e.counts, U32(1))
             e1 == [e EXCEPT !.counts = None]
             end == IF ke.ch = "h" THEN move_left_u32(T, cursor, count)
                    ELSE line_start(T, cursor.line)
         IN  IF ke.code = "Char" /\ ke.ch \in {"h", "0"}
             THEN RetU32(clear_op(e1), OperatorCursor(cursor, end),
                         IF e.op_pending = Some("Delete")
                         THEN apply_delete(cursor, end) ELSE <<>>,
                         IF ke.ch = "h" THEN <<count>> ELSE <<>>)
             ELSE NormalCommandU32(e1, T, cursor, ke)

\* "Count digits" with the u32 count
NormalDigitU32(e, T, cursor, ke) ==
    IF ke.code = "Char" /\ ke.ch \in Digits
    THEN IF ke.ch = "0" /\ e.counts = None /\ e.op_pending = None
         THEN LET p == line_start(T, cursor.line)
              IN  RetU32([e EXCEPT !.preferred_col = Some(0)], p,
                         <<SetCursor(p)>>, <<>>)
         ELSE IF ke.ch = "0" /\ e.counts = None /\ e.op_pending # None
         THEN NormalOperatorU32(e, T, cursor, ke)
         ELSE RetU32([e EXCEPT !.counts =
                          push_digit_u32(e.counts, DigitValue(ke.ch))],
                     cursor, <<>>, <<>>)
    ELSE NormalOperatorU32(e, T, cursor, ke)

\* (Mode::Normal, InputEvent::Key(ke)) with the u32 count
NormalKeyU32(e, T, cursor, ke) ==
    IF e.pending = PendingD /\ ke.code = "Char" /\ ke.ch = "d"
    THEN NormalPendingDU32(e, T, cursor)
    ELSE {NormalDigitU32(clear_pending(e), T, cursor, ke)}

\* Engine::handle_event in Normal mode: the set of its outcomes
handle_event_u32(e, T, cursor0, input) ==
    LET cursor == clamp(T, cursor0)
    IN  IF e.mode = Normal /\ input.t = "Key"
        THEN NormalKeyU32(e, T, cursor, input)
        ELSE {RetU32(e, cursor, <<>>, <<>>)}

\* the host of SpecU32: keys of a count, the operator d, the motion h, Esc
WideKeyEvents == {Key(c) : c \in {"0", "9", "d", "h"}} \cup {KeyEsc}
WideCursors == {Position(0, 3), Position(1, 0), Position(2, 1)}
\* counts a user has typed before the first step: none, 429496729 and
\* 4294967294
TypedCounts == {None, Some(U32(429496729)), Some(<<Limb - 1, Limb - 2>>)}

InitU32 ==
    /\ mode = EngineNew.mode
    /\ preferred_col = EngineNew.preferred_col
    /\ counts \in TypedCounts
    /\ pending = EngineNew.pending
    /\ op_pending = EngineNew.op_pending
    /\ visual_anchor = EngineNew.visual_anchor
    /\ text = TextBuffer
    /\ clipboard = MockClipboardNew
    /\ ev = NoEvent
    /\ cur = Position(0, 0)
    /\ pos = Position(0, 0)
    /\ cmds = <<>>
    /\ metadata = None
    /\ calls = <<>>

\* one call that returns; a call that panics ends the run
HandleU32(input, cursor) ==
    \E r \in handle_event_u32(engine, text, cursor, input) :
        /\ ~r.panicked
        /\ mode' = r.eng.mode
        /\ preferred_col' = r.eng.preferred_col
        /\ counts' = r.eng.counts
        /\ pending' = r.eng.pending
        /\ op_pending' = r.eng.op_pending
        /\ visual_anchor' = r.eng.visual_anchor
        /\ ev' = input
        /\ cur' = cursor
        /\ pos' = r.pos
        /\ cmds' = r.cmds
        /\ UNCHANGED <<text, clipboard, metadata, calls>>

PressKeyU32 ==
    \E input \in WideKeyEvents, cursor \in WideCursors : HandleU32(input, cursor)

NextU32 == PressKeyU32

SpecU32 == InitU32 /\ [][NextU32]_vars

(***************************************************************************)
(* The recording store of the whisperer application                        *)
(* (src/whisperer/src-tauri/src/storage.rs and commands.rs).  metadata is  *)
(* the file metadata.json: None while it does not exist, otherwise the     *)
(* list of recordings last written.  Tauri runs every invocation of an     *)
(* async command as a task of its own, so the file reads and writes of     *)
(* different invocations interleave; calls holds, for each invocation, the *)
(* point it has reached and its local `recordings` vector.                 *)
(***************************************************************************)
Recording(id, transcription) == [id |-> id, transcription |-> transcription]

\* StorageManager::list_recordings: the stored list, empty without a file
list_recordings(file) == IF file = None THEN <<>> ELSE file[1]

\* StorageManager::save_metadata: the file replaced by the list given
save_metadata(recordings) == Some(recordings)

\* `recordings.iter().position(|r| r.id == recording_id)`: 0 for no match
position(recordings, id) ==
    LET hits == {i \in 1..Len(recordings) : recordings[i].id = id}
    IN  IF hits = {} THEN 0 ELSE CHOOSE i \in hits : \A j \in hits : i <= j

\* Vec::remove
remove(recordings, i) ==
    [j \in 1..(Len(recordings) - 1) |->
        IF j < i THEN recordings[j] ELSE recordings[j + 1]]

\* the invocations in flight, of the commands the invoke_handler of main.rs
\* registers (upload_audio_file is declared but not registered); a stop names
\* its recording by a fresh uuid, here the name of the invocation
StopCalls == {"stop_a", "stop_b"}
TranscribeCalls == {"transcribe"}
DeleteCalls == {"delete"}
Calls == StopCalls \cup TranscribeCalls \cup DeleteCalls
\* the recording_id argument of a transcribe or delete invocation
recording_id(c) == IF c \in TranscribeCalls THEN "r0" ELSE "r1"

CallState(pc, recordings, index) ==
    [pc |-> pc, recordings |-> recordings, index |-> index]
Idle == CallState("idle", <<>>, 0)

InitMeta ==
    /\ mode = EngineNew.mode
    /\ preferred_col = EngineNew.preferred_col
    /\ counts = EngineNew.counts
    /\ pending = EngineNew.pending
    /\ op_pending = EngineNew.op_pending
    /\ visual_anchor = EngineNew.visual_anchor
    /\ text = EmptyBuffer
    /\ clipboard = MockClipboardNew
    /\ ev = NoEvent
    /\ cur = Position(0, 0)
    /\ pos = Position(0, 0)
    /\ cmds = <<>>
    /\ metadata \in {None, Some(<<Recording("r0", None), Recording("r1", None)>>)}
    /\ calls = [c \in Calls |-> Idle]

EngineIdle ==
    UNCHANGED <<mode, preferred_col, counts, pending, op_pending,
                visual_anchor, text, clipboard, ev, cur, pos, cmds>>

\* stop_recording: `state.audio_manager.lock().await`, held until the
\* command returns
AudioLockHeld == \E c \in StopCalls : calls[c].pc \in {"locked", "listed"}
StopLock(c) ==
    /\ calls[c].pc = "idle"
    /\ ~AudioLockHeld
    /\ calls' = [calls EXCEPT ![c].pc = "locked"]
    /\ UNCHANGED metadata
    /\ EngineIdle

\* stop_recording, "Update metadata":
\* `let mut recordings = StorageManager::list_recordings(&app)?`
StopList(c) ==
    /\ calls[c].pc = "locked"
    /\ calls' = [calls EXCEPT ![c] = CallState("listed",
                                               list_recordings(metadata), 0)]
    /\ UNCHANGED metadata
    /\ EngineIdle

\* `recordings.push(recording.clone()); StorageManager::save_metadata(..)`
StopSave(c) ==
    /\ calls[c].pc = "listed"
    /\ metadata' = save_metadata(Append(calls[c].recordings, Recording(c, None)))
    /\ calls' = [calls EXCEPT ![c].pc = "ok"]
    /\ EngineIdle

\* transcribe_recording and delete_recording: the list is read and the
\* recording looked up; Err("Recording not found") without one, and a
\* recording already transcribed is returned as it is
FindList(c) ==
    /\ calls[c].pc = "idle"
    /\ LET recordings == list_recordings(metadata)
           index == position(recordings, recording_id(c))
       IN  calls' = [calls EXCEPT ![c] =
               IF index = 0 THEN CallState("err", recordings, 0)
               ELSE IF c \in TranscribeCalls
                       /\ recordings[index].transcription # None
               THEN CallState("ok", recordings, index)
               ELSE CallState("listed", recordings, index)]
    /\ UNCHANGED metadata
    /\ EngineIdle

\* a `?` between the lookup and the save returns an error: no transcription
\* service, an unreadable audio file, a failed request, a failed remove_file
FindFail(c) ==
    /\ calls[c].pc = "listed"
    /\ calls' = [calls EXCEPT ![c].pc = "err"]
    /\ UNCHANGED metadata
    /\ EngineIdle

\* transcribe_recording, "Save updated metadata":
\* `recordings[recording_index] = recording.clone(); save_metadata(..)`
TranscribeSave(c) ==
    /\ calls[c].pc = "listed"
    /\ metadata' = save_metadata(
           [calls[c].recordings EXCEPT ![calls[c].index].transcription =
                Some("text")])
    /\ calls' = [calls EXCEPT ![c].pc = "ok"]
    /\ EngineIdle

\* delete_recording, "Remove from metadata":
\* `recordings.remove(recording_index); save_metadata(..)`
DeleteSave(c) ==
    /\ calls[c].pc = "listed"
    /\ metadata' = save_metadata(remove(calls[c].recordings, calls[c].index))
    /\ calls' = [calls EXCEPT ![c].pc = "ok"]
    /\ EngineIdle

stop_recording == \E c \in StopCalls : StopLock(c) \/ StopList(c) \/ StopSave(c)
transcribe_recording ==
    \E c \in TranscribeCalls : FindList(c) \/ FindFail(c) \/ TranscribeSave(c)
delete_recording ==
    \E c \in DeleteCalls : FindList(c) \/ FindFail(c) \/ DeleteSave(c)

NextMeta == stop_recording \/ transcribe_recording \/ delete_recording

SpecMeta == InitMeta /\ [][NextMeta]_vars

(***************************************************************************)
(* Properties.  `cur` is the cursor passed to the last call, `ev` its      *)
(* event, `pos` and `cmds` what it returned; in an action formula the      *)
(* unprimed engine fields are the engine before the call.                  *)
(***************************************************************************)
MinPos(a, b) == IF PosLE(a, b) THEN a ELSE b
MaxPos(a, b) == IF PosLE(a, b) THEN b ELSE a

IsDelete(c) == c.cmd = "Delete"
Deletes(cs) == {i \in 1..Len(cs) : IsDelete(cs[i])}
HasSetCursor(cs, p) == \E i \in 1..Len(cs) : cs[i].cmd = "SetCursor" /\ cs[i].at = p

\* C1: in every reachable state an operator is pending only in Normal mode.
C1_OpPendingOnlyInNormal == op_pending # None => mode = Normal

\* C2: a Key(Esc) handled in Normal mode clears count, pending_key,
\* op_pending and preferred_col and emits no command.
C2_NormalEscClearsAll ==
    [][(mode = Normal /\ ev' = KeyEsc) =>
          /\ counts' = None
          /\ pending' = PendingNone
          /\ op_pending' = None
          /\ preferred_col' = None
          /\ cmds' = <<>>]_vars

\* C3: visual_anchor is Some exactly when mode is Visual(CharWise) or
\* Visual(LineWise).
C3_AnchorIffVisual ==
    (visual_anchor # None) <=> (mode \in {Visual("CharWise"), Visual("LineWise")})

\* Visual mode was entered, moved in and left by 'd'
C3_Witness ==
    /\ ev = Key("d")
    /\ Len(cmds) = 2
    /\ cmds[2] = SetSelection(None)
    /\ mode = Normal
    /\ visual_anchor = None

\* C4: every emitted Delete{range} has range.start <= range.end in the
\* lexicographic (line, col) order.
C4_DeleteRangeOrdered ==
    \A i \in Deletes(cmds) : PosLE(cmds[i].start, cmds[i].end)

\* a Delete produced by a backward motion (d h): the motion's end is the
\* range's start
C4_Witness ==
    /\ ev = Key("h")
    /\ Len(cmds) = 1
    /\ IsDelete(cmds[1])
    /\ cmds[1].end = clamp(text, cur)
    /\ cmds[1].start # cmds[1].end

\* C5: both endpoints of every emitted Delete lie on a line <= line_count(),
\* also for buffers of zero or one line.
C5_DeleteLinesWithinBuffer ==
    \A i \in Deletes(cmds) :
        /\ cmds[i].start.line <= line_count(text)
        /\ cmds[i].end.line <= line_count(text)

\* C6 (as claimed): whenever the returned position differs from the cursor
\* passed in, the commands contain SetCursor(returned position).
C6_SetCursorOnEveryChange ==
    (ev # NoEvent /\ pos # cur) => HasSetCursor(cmds, pos)

\* this call completes (or abandons) the pending operator
OperatorResolved == op_pending # None /\ op_pending' = None

\* C6 (amended): whenever the returned position differs from the clamped
\* cursor, the commands contain SetCursor(returned position), unless the
\* call was made in Insert mode, resolved a pending operator, or was 'd' in
\* Visual mode.
C6_SetCursorOnMotion ==
    [][(/\ pos' # clamp(text, cur')
        /\ mode # Insert
        /\ ~OperatorResolved
        /\ ~(mode[1] = "Visual" /\ ev' = Key("d")))
       => HasSetCursor(cmds', pos')]_vars

\* a motion moved the cursor and reported it
C6_Witness ==
    /\ ev = Key("l")
    /\ pos # clamp(text, cur)
    /\ cmds = <<SetCursor(pos)>>

\* the motion a key stands for, on the clamped cursor c with count n
MotionTarget(T, k, c, n) ==
    CASE k = "h" -> move_left(T, c, n)
      [] k = "l" -> move_right(T, c, n)
      [] k = "0" -> line_start(T, c.line)
      [] k = "w" -> next_word_start(T, c, n)
      [] k = "b" -> prev_word_start(T, c, n)

\* the key of this call acts as one of the motions h, l, 0, w, b on a pending
\* Delete: no f/t is waiting for its character and '0' does not extend a count
DeleteMotionCall(k) ==
    /\ mode = Normal
    /\ op_pending = Some("Delete")
    /\ pending[1] # "F"
    /\ ev' = Key(k)
    /\ k = "0" => counts = None

\* C7: with Delete pending, a motion key among h, l, 0, w, b resolving to m
\* emits exactly Delete{[min(cursor,m), max(cursor,m))}, returns min(cursor,m)
\* and leaves op_pending = None.
C7_DeleteMotionRange ==
    [][\A k \in {"h", "l", "0", "w", "b"} :
          DeleteMotionCall(k) =>
             LET c == clamp(text, cur')
                 m == MotionTarget(text, k, c, take_or(counts, 1))
             IN  /\ cmds' = <<Delete(MinPos(c, m), MaxPos(c, m))>>
                 /\ pos' = MinPos(c, m)
                 /\ op_pending' = None]_vars

\* d b (or d 2 h) from the end of "ld d": the word before the cursor is deleted
\* and the cursor moves to the start of the range
C7_Witness ==
    /\ text = TextBuffer
    /\ ev \in {Key("h"), Key("b")}
    /\ cmds = <<Delete(Position(0, 1), Position(0, 3))>>
    /\ pos = Position(0, 1)
    /\ op_pending = None

\* the second d of [n] d d
DdCall == mode = Normal /\ pending = PendingD /\ ev' = Key("d")

C9_DeleteToLineEnd ==
    [][DeleteMotionCall("$") =>
          LET c == clamp(text, cur')
          IN  /\ cmds' = <<Delete(c, move_right(text, line_end(text, c.line), 1))>>
              /\ pos' = c
              /\ op_pending' = None]_vars

\* d $ from column 1 of "ld d": the range ends one past the last character
C9_Witness ==
    /\ text = TextBuffer
    /\ ev = Key("$")
    /\ cmds = <<Delete(Position(0, 1), Position(0, 4))>>
    /\ pos = Position(0, 1)
    /\ op_pending = None

FindMotionCall(before) ==
    /\ mode = Normal
    /\ pending = PendingF(before)
    /\ op_pending = None
    /\ ev'.t = "Key" /\ ev'.code = "Char"
    /\ find_in_line(text, clamp(text, cur'), ev'.ch, before,
                    take_or(counts, 1)) # None

\* C11: with no operator pending, t<ch> moves the cursor one grapheme left of
\* the match located by find_in_line and f<ch> moves to the match itself.
C11_TillStopsBeforeMatch ==
    [][\A before \in BOOLEAN :
          FindMotionCall(before) =>
              LET c == clamp(text, cur')
                  m == find_in_line(text, c, ev'.ch, before, take_or(counts, 1))[1]
                  target == IF before THEN move_left(text, m, 1) ELSE m
              IN  /\ pos' = target
                  /\ cmds' = <<SetCursor(target)>>]_vars

\* C12: in Visual mode d emits exactly [Delete{range}, SetSelection(None)],
\* range = [min(anchor,cursor), move_right(max(anchor,cursor),1)) for CharWise
\* and [(low_line,0),(high_line+1,0)) for LineWise; afterwards the mode is
\* Normal, the anchor is cleared and the returned cursor is range.start.
C12_VisualDelete ==
    [][(/\ mode[1] = "Visual"
        /\ visual_anchor # None
        /\ ev' = Key("d"))
       => LET c == clamp(text, cur')
              a == visual_anchor[1]
              lo == MinPos(a, c)
              hi == MaxPos(a, c)
              start == IF mode[2] = "CharWise" THEN lo
                       ELSE Position(lo.line, 0)
              end == IF mode[2] = "CharWise" THEN move_right(text, hi, 1)
                     ELSE Position(hi.line + 1, 0)
          IN  /\ cmds' = <<Delete(start, end), SetSelection(None)>>
              /\ mode' = Normal
              /\ visual_anchor' = None
              /\ pos' = start]_vars

\* v l d from the start of "ld d": both selected characters are deleted
C12_Witness ==
    /\ text = TextBuffer
    /\ ev = Key("d")
    /\ mode = Normal /\ visual_anchor = None
    /\ cmds = <<Delete(Position(0, 0), Position(0, 2)), SetSelection(None)>>
    /\ pos = Position(0, 0)

\* V j d from the start of "ld d": whole lines 0 and 1 are deleted
C12_WitnessLineWise ==
    /\ text = TextBuffer
    /\ ev = Key("d")
    /\ cmds = <<Delete(Position(0, 0), Position(2, 0)), SetSelection(None)>>

\* a motion of Visual mode that completes: every motion key except the first
\* g of gg
VisualMotionCall ==
    /\ mode[1] = "Visual"
    /\ visual_anchor # None
    /\ ev'.t = "Key" /\ ev'.code = "Char"
    /\ ev'.ch \in {"h", "j", "k", "l", "0", "$", "w", "b", "{", "}", "G", "g"}
    /\ (ev'.ch = "g" => pending = PendingG)

\* C13: while the engine stays in Visual mode the anchor is the cursor at
\* which Visual was entered and no step changes it, and every completed
\* motion emits exactly [SetCursor(new_cursor), SetSelection(Some(sel))], sel
\* = (min, max) of anchor and new cursor for CharWise and (line_start(min
\* line), line_end(max line)) for LineWise.
C13_AnchorFixedSelectionRecomputed ==
    [][/\ (mode = Normal /\ mode'[1] = "Visual")
              => visual_anchor' = Some(clamp(text, cur'))
       /\ (mode[1] = "Visual" /\ mode'[1] = "Visual")
              => visual_anchor' = visual_anchor
       /\ VisualMotionCall
              => LET a == visual_anchor[1]
                     lo == MinPos(a, pos')
                     hi == MaxPos(a, pos')
                     sel == IF mode[2] = "CharWise"
                            THEN Selection(lo, hi, "CharWise")
                            ELSE Selection(Position(lo.line, 0),
                                           line_end(text, hi.line),
                                           "LineWise")
                 IN  /\ cmds' = <<SetCursor(pos'), SetSelection(Some(sel))>>
                     /\ mode' = mode]_vars

\* v at (0,1) of "ld d", then h: the cursor moved left of the anchor and the
\* selection runs from the cursor to the anchor
C13_Witness ==
    /\ text = TextBuffer
    /\ mode = Visual("CharWise")
    /\ ev = Key("h")
    /\ visual_anchor = Some(Position(0, 1))
    /\ pos = Position(0, 0)
    /\ cmds = <<SetCursor(Position(0, 0)),
                SetSelection(Some(Selection(Position(0, 0), Position(0, 1),
                                            "CharWise")))>>

\* v on line 2, V, then g g: the anchor survives the switch to LineWise and
\* the selection covers the lines 0..2 whole
C13_WitnessLineWise ==
    /\ text = TextBuffer
    /\ mode = Visual("LineWise")
    /\ ev = Key("g")
    /\ visual_anchor = Some(Position(2, 0))
    /\ cmds = <<SetCursor(Position(0, 0)),
                SetSelection(Some(Selection(Position(0, 0), Position(2, 1),
                                            "LineWise")))>>

\* a key that leaves Visual mode without deleting: Esc in either kind, v in
\* CharWise, V in LineWise
VisualExitCall ==
    /\ mode[1] = "Visual"
    /\ \/ ev' = KeyEsc
       \/ (mode[2] = "CharWise" /\ ev' = Key("v"))
       \/ (mode[2] = "LineWise" /\ ev' = Key("V"))

\* C14: from Visual mode Esc, v (in CharWise) and V (in LineWise) each set the
\* mode to Normal, clear the anchor, return the cursor unchanged and emit
\* exactly [SetSelection(None)]; so v then v from Normal ends in Normal with no
\* selection.
C14_VisualExit ==
    [][VisualExitCall =>
          /\ mode' = Normal
          /\ visual_anchor' = None
          /\ pos' = clamp(text, cur')
          /\ cmds' = <<SetSelection(None)>>]_vars

\* v pressed in Visual CharWise at (0,1): back in Normal, selection removed
C14_Witness ==
    /\ text = TextBuffer
    /\ ev = Key("v")
    /\ mode = Normal
    /\ visual_anchor = None
    /\ pos = Position(0, 1)
    /\ cmds = <<SetSelection(None)>>

\* Esc pressed in Visual mode
C14_WitnessEsc ==
    /\ ev = KeyEsc
    /\ mode = Normal
    /\ cmds = <<SetSelection(None)>>

RECURSIVE JoinLines(_, _, _)
\* the graphemes of lines first..last of T, each line followed by a newline
JoinLines(T, first, last) ==
    IF first > last THEN <<>>
    ELSE line_str(T, first) \o <<"\n">> \o JoinLines(T, first + 1, last)

\* the second y of [n] y y
YyCall ==
    /\ mode = Normal
    /\ pending = PendingNone
    /\ op_pending = Some("Yank")
    /\ ev = Key("y")
    /\ ev' = Key("y")
    /\ line_count(text) > 0

GotoTarget(n, default_) ==
    IF n # None /\ n[1] > 0
    THEN Position(Min(n[1] - 1, saturating_sub(line_count(text), 1)), 0)
    ELSE Position(default_, 0)

\* C17: in Normal mode with no operator pending, [n]G moves to (min(n-1,
\* line_count-1), 0) and G alone to (line_count-1, 0); [n]gg moves to
\* (min(n-1, line_count-1), 0) and gg alone to (0,0); the first g returns the
\* cursor unchanged with no command, and the completed motion emits exactly
\* [SetCursor(target)], sets preferred_col to 0 and clears count and
\* pending_key.  (line_count-1 is 0 on a buffer without lines.)
C17_GotoLine ==
    [][/\ (/\ mode = Normal /\ op_pending = None /\ pending[1] # "F"
           /\ ev' = Key("G"))
          => LET target == GotoTarget(counts, saturating_sub(line_count(text), 1))
             IN  /\ pos' = target
                 /\ cmds' = <<SetCursor(target)>>
                 /\ preferred_col' = Some(0)
                 /\ counts' = None /\ pending' = PendingNone
       /\ (/\ mode = Normal /\ op_pending = None /\ pending = PendingG
           /\ ev' = Key("g"))
          => LET target == GotoTarget(counts, 0)
             IN  /\ pos' = target
                 /\ cmds' = <<SetCursor(target)>>
                 /\ preferred_col' = Some(0)
                 /\ counts' = None /\ pending' = PendingNone
       /\ (/\ mode = Normal /\ op_pending = None /\ pending = PendingNone
           /\ ev' = Key("g"))
          => /\ pos' = clamp(text, cur')
             /\ cmds' = <<>>
             /\ pending' = PendingG
             /\ counts' = counts]_vars

\* 2 G on "ld d": the count picks line 1, not the last line
C17_Witness ==
    /\ text = TextBuffer
    /\ ev = Key("G")
    /\ pos = Position(1, 0)
    /\ cmds = <<SetCursor(Position(1, 0))>>
    /\ preferred_col = Some(0)
    /\ counts = None /\ pending = PendingNone

\* 2 0 g g on "ld d": the count is held to the last line
C17_WitnessGg ==
    /\ text = TextBuffer
    /\ ev = Key("g")
    /\ mode = Normal
    /\ pos = Position(2, 0)
    /\ cur # Position(2, 0)
    /\ cmds = <<SetCursor(Position(2, 0))>>

\* C18: in Normal mode with no operator pending, [n]x at cursor c emits
\* exactly one Delete{[c, move_right(c,n))} when move_right(c,n) differs from
\* c and no command otherwise; either way it returns c, consumes the count and
\* leaves mode and preferred_col unchanged.
C18_DeleteChars ==
    [][(/\ mode = Normal
        /\ op_pending = None
        /\ pending[1] # "F"
        /\ ev' = Key("x"))
       => LET c == clamp(text, cur')
              end == move_right(text, c, take_or(counts, 1))
          IN  /\ cmds' = IF end = c THEN <<>> ELSE <<Delete(c, end)>>
              /\ pos' = c
              /\ counts' = None
              /\ mode' = mode
              /\ preferred_col' = preferred_col]_vars

\* 2 x at the start of "ld d": two graphemes deleted, cursor stays
C18_Witness ==
    /\ text = TextBuffer
    /\ ev = Key("x")
    /\ mode = Normal
    /\ cmds = <<Delete(Position(0, 0), Position(0, 2))>>
    /\ pos = Position(0, 0)
    /\ counts = None

\* x one past the last character of "ld d": nothing to delete
C18_WitnessLineEnd ==
    /\ text = TextBuffer
    /\ ev = Key("x")
    /\ mode = Normal
    /\ pending = PendingNone
    /\ pos = Position(0, 4)
    /\ cmds = <<>>

\* C19: in Insert mode ReceivedChar(ch) emits exactly one command
\* InsertText{at: clamp(cursor), text: ch}, returns (line, col+1) of the
\* clamped cursor and leaves mode = Insert and every other engine field
\* unchanged.
C19_InsertReceivedChar ==
    [][(mode = Insert /\ ev'.t = "ReceivedChar")
       => LET c == clamp(text, cur')
          IN  /\ cmds' = <<InsertText(c, ev'.ch)>>
              /\ pos' = Position(c.line, c.col + 1)
              /\ mode' = Insert
              /\ UNCHANGED <<preferred_col, counts, pending, op_pending,
                             visual_anchor>>]_vars

\* i at the start of "ld d", then the character x arrives
C19_Witness ==
    /\ text = TextBuffer
    /\ mode = Insert
    /\ ev = ReceivedChar("x")
    /\ cur = Position(0, 0)
    /\ cmds = <<InsertText(Position(0, 0), "x")>>
    /\ pos = Position(0, 1)

\* C20: when find_in_line returns None for an f<ch> or t<ch> sequence,
\* handle_event returns the cursor unchanged with no commands, and
\* pending_key, count and any pending operator are cleared, so the next motion
\* key emits no Delete.
C20_FindMissClearsState ==
    [][\A before \in BOOLEAN :
          (/\ mode = Normal
           /\ pending = PendingF(before)
           /\ ev'.t = "Key" /\ ev'.code = "Char"
           /\ find_in_line(text, clamp(text, cur'), ev'.ch, before,
                           take_or(counts, 1)) = None)
          => /\ pos' = clamp(text, cur')
             /\ cmds' = <<>>
             /\ pending' = PendingNone
             /\ counts' = None
             /\ op_pending' = None
             /\ mode' = Normal]_vars

\* f G on "ld d": G is on no line, and only a find that missed makes the key
\* G return without a command in Normal mode
C20_Witness ==
    /\ text = TextBuffer
    /\ mode = Normal
    /\ ev = Key("G")
    /\ cmds = <<>>
    /\ pos = clamp(text, cur)
    /\ pending = PendingNone /\ counts = None /\ op_pending = None

\* the default clamp as the claim words it
ClampedAsStated(p) ==
    LET last == IF line_count(text) = 0 THEN 0 ELSE line_count(text) - 1
        line == IF p.line < last THEN p.line ELSE last
        len == line_len(text, line)
    IN  Position(line, IF p.col < len THEN p.col ELSE len)

\* C21: handle_event called with any cursor p, out of bounds included,
\* returns the same position, the same commands and the same next engine
\* state as handle_event called with clamp(p); clamp maps p to (min(p.line,
\* line_count-1 saturating at 0), min(p.col, line_len(that line))) and is
\* idempotent.
C21_ClampPreface ==
    [][\E r \in {handle_event(engine, text, clamp(text, cur'), ev')} :
           /\ pos' = r.pos
           /\ cmds' = r.cmds
           /\ engine' = r.eng
           /\ clamp(text, cur') = ClampedAsStated(cur')
           /\ clamp(text, clamp(text, cur')) = clamp(text, cur')]_vars

\* h with the cursor handed in at (3,6), outside "ld d\n\ndl": the result is
\* the one of h from (2,2)
C21_Witness ==
    /\ text = TextBuffer
    /\ ev = Key("h")
    /\ mode = Normal
    /\ cur = Position(FarLine, FarCol)
    /\ clamp(text, cur) = Position(2, 2)
    /\ pos = Position(2, 1)
    /\ cmds = <<SetCursor(Position(2, 1))>>

\* p is a position of the buffer: a line of it (line 0 when it has no
\* lines) and a column not past the end of that line
InBounds(p) ==
    /\ (p.line < line_count(text) \/ (p.line = 0 /\ line_count(text) = 0))
    /\ p.col <= line_len(text, p.line)

PureMotionKeys == {"h", "j", "k", "l", "0", "$", "w", "b", "{", "}", "g", "G"}

\* a pure motion key, or a digit of its count, handled in Normal mode with no
\* operator pending
PureMotionCall ==
    /\ mode = Normal
    /\ op_pending = None
    /\ pending[1] # "F"
    /\ ev'.t = "Key" /\ ev'.code = "Char"
    /\ ev'.ch \in PureMotionKeys \cup Digits

\* C22: every position returned for a pure motion key (h j k l 0 $ w b { } g
\* G, with optional counts) handled in Normal mode with no operator pending is
\* in bounds: its line is below line_count (or is 0 on a buffer without
\* lines) and its column is at most the length of that line.
C22_MotionsStayInBounds ==
    [][PureMotionCall => InBounds(pos')]_vars

\* l from (3,6), outside "ld d\n\ndl": held to one past the end of line 2
C22_Witness ==
    /\ text = TextBuffer
    /\ mode = Normal
    /\ ev = Key("l")
    /\ cur = Position(FarLine, FarCol)
    /\ pos = Position(2, 2)
    /\ cmds = <<SetCursor(Position(2, 2))>>

\* a motion key handled in Normal mode on a buffer without text, no operator
\* pending: h j k l w b { } $ G g, and 0 while no count is in progress
EmptyBufferMotionCall ==
    /\ text \in {EmptyBuffer, ZeroLineBuffer}
    /\ mode = Normal
    /\ op_pending = None
    /\ pending[1] # "F"
    /\ ev'.t = "Key" /\ ev'.code = "Char"
    /\ ev'.ch \in PureMotionKeys
    /\ (ev'.ch = "0" => counts = None)

\* C23: on an empty buffer every motion key in Normal mode (h j k l w b { } 0
\* $ G gg) returns position (0,0) and an empty command list.
C23_EmptyBufferNoCommands ==
    [][EmptyBufferMotionCall =>
          (pos' = Position(0, 0) /\ cmds' = <<>>)]_vars

\* C23 as the code has it: on an empty buffer every motion key in Normal mode
\* returns position (0,0); the completed motion emits exactly
\* [SetCursor((0,0))] and only the first g of gg emits nothing.
C23_EmptyBufferMotionsStay ==
    [][EmptyBufferMotionCall =>
          /\ pos' = Position(0, 0)
          /\ cmds' = IF ev'.ch = "g" /\ pending # PendingG THEN <<>>
                     ELSE <<SetCursor(Position(0, 0))>>]_vars

\* j on the buffer of "" with the cursor handed in at (3,6)
C23_Witness ==
    /\ text = EmptyBuffer
    /\ mode = Normal
    /\ ev = Key("j")
    /\ cur = Position(FarLine, FarCol)
    /\ pos = Position(0, 0)
    /\ cmds = <<SetCursor(Position(0, 0))>>

\* C24: in every reachable Normal-mode state and for every cursor, handling
\* Key(Esc) twice gives the same engine state and returned cursor as handling
\* it once, and the second Esc emits no commands and changes no field.
C24_NormalEscIdempotent ==
    mode = Normal =>
        \A c \in HostCursors :
            LET once == handle_event(engine, text, c, KeyEsc)
                twice == handle_event(once.eng, text, once.pos, KeyEsc)
            IN  /\ twice.eng = once.eng
                /\ twice.pos = once.pos
                /\ twice.cmds = <<>>

\* 2 d Esc on "ld d" with the cursor at (0,1): the count and the pending d
\* were cleared and the cursor stayed where it was
C24_Witness ==
    /\ text = TextBuffer
    /\ mode = Normal
    /\ ev = KeyEsc
    /\ cur = Position(0, 1) /\ pos = Position(0, 1)
    /\ cmds = <<>>
    /\ counts = None /\ pending = PendingNone /\ preferred_col = None
    /\ op_pending = Some("Delete")

\* the key i pressed in Normal mode falls to the 'i' arm unless a pending f/t
\* takes it as its character
InsertSwitchState == mode = Normal /\ pending[1] # "F"

\* C25: from every reachable Normal-mode state (count in progress, pending
\* key, preferred column included) and cursor c, the sequence i, Esc emits no
\* commands, returns clamp(c) and leaves every engine field (mode, count,
\* pending_key, op_pending, preferred_col, visual_anchor) equal to its value
\* before the i.
C25_InsertEscRestoresState ==
    InsertSwitchState =>
        \A c \in HostCursors :
            LET i == handle_event(engine, text, c, Key("i"))
                esc == handle_event(i.eng, text, i.pos, KeyEsc)
            IN  /\ i.cmds = <<>> /\ esc.cmds = <<>>
                /\ esc.pos = clamp(text, c)
                /\ esc.eng = engine

\* C25 as the code has it: i, Esc emits no commands, returns clamp(c) and
\* leaves mode, op_pending, preferred_col and visual_anchor equal to their
\* values before the i, while count and pending_key are None afterwards.
C25_InsertEscClearsCountAndPending ==
    InsertSwitchState =>
        \A c \in HostCursors :
            LET i == handle_event(engine, text, c, Key("i"))
                esc == handle_event(i.eng, text, i.pos, KeyEsc)
            IN  /\ i.cmds = <<>> /\ esc.cmds = <<>>
                /\ i.eng.mode = Insert
                /\ esc.pos = clamp(text, c)
                /\ esc.eng = [engine EXCEPT !.counts = None,
                                            !.pending = PendingNone]

\* 2 i on "ld d" after a j that set the preferred column: Insert mode is
\* entered without a command, the count is gone, preferred_col is kept
C25_Witness ==
    /\ text = TextBuffer
    /\ mode = Insert
    /\ ev = Key("i")
    /\ cmds = <<>>
    /\ pos = clamp(text, cur)
    /\ counts = None /\ pending = PendingNone
    /\ preferred_col # None

\* the Esc that follows: back in Normal mode with the same preferred column
C25_WitnessEsc ==
    /\ text = TextBuffer
    /\ mode = Normal
    /\ ev = KeyEsc
    /\ cmds = <<>>
    /\ preferred_col # None

\* G, or the second g of gg, pressed with Delete pending
DeleteGotoCall ==
    /\ mode = Normal
    /\ op_pending = Some("Delete")
    /\ \/ (pending[1] # "F" /\ ev' = Key("G"))
       \/ (pending = PendingG /\ ev' = Key("g"))

\* C26: with Delete pending the motions G and gg complete the operator: the
\* call emits a Delete whose range runs between the cursor and the target
\* line and leaves op_pending = None, so a later motion key only moves the
\* cursor.
C26_DeleteToLine ==
    [][DeleteGotoCall =>
          LET c == clamp(text, cur')
              target == IF ev'.ch = "G"
                        THEN GotoTarget(counts, saturating_sub(line_count(text), 1))
                        ELSE GotoTarget(counts, 0)
          IN  /\ \E i \in Deletes(cmds') :
                    /\ cmds'[i].start = MinPos(c, target)
                    /\ cmds'[i].end = MaxPos(c, target)
              /\ op_pending' = None]_vars

\* the characters looked for on a line of the buffer
FindChars == {"d", "l"}

\* C27: the count typed by the user is the count passed to find_in_line
\* whether or not an operator is pending: n f ch moves to the n-th
\* occurrence, and d n f ch as well as n d f ch delete through the n-th
\* occurrence.
C27_FindTakesTypedCount ==
    (mode = Normal /\ pending[1] # "F" /\ counts # None) =>
        \A c \in HostCursors, ch \in FindChars :
            LET start == clamp(text, c)
                nth == find_in_line(text, start, ch, FALSE, take_or(counts, 1))
                through == <<Delete(start, move_right(text, nth[1], 1))>>
                f == handle_event(engine, text, c, Key("f"))
                f_ch == handle_event(f.eng, text, f.pos, Key(ch))
                d == handle_event(engine, text, c, Key("d"))
                d_f == handle_event(d.eng, text, d.pos, Key("f"))
                d_f_ch == handle_event(d_f.eng, text, d_f.pos, Key(ch))
            IN  nth # None =>
                    /\ op_pending = None =>
                           (f_ch.pos = nth[1] /\ f_ch.cmds = <<SetCursor(nth[1])>>)
                    /\ op_pending = Some("Delete") => f_ch.cmds = through
                    /\ op_pending = None => d_f_ch.cmds = through

\* the part of C27 without an operator: n f ch moves to the n-th occurrence
C27_CountedFindMotion ==
    [][(/\ mode = Normal
        /\ pending = PendingF(FALSE)
        /\ op_pending = None
        /\ counts # None
        /\ ev'.t = "Key" /\ ev'.code = "Char"
        /\ find_in_line(text, clamp(text, cur'), ev'.ch, FALSE, counts[1]) # None)
       => pos' = find_in_line(text, clamp(text, cur'), ev'.ch, FALSE, counts[1])[1]]_vars

\* 2 f d from the start of "ld d" lands on the second d
C27_CountedFindReached ==
    /\ text = TextBuffer
    /\ ev = Key("d")
    /\ cur = Position(0, 0)
    /\ pos = Position(0, 3)
    /\ cmds = <<SetCursor(Position(0, 3))>>

ModeSwitchKeys == {"i", "a", "I", "A", "v", "V"}

\* C28: after any of the mode-switch keys i, a, I, A, v, V is handled in
\* Normal mode, count is None and pending_key is None; a count typed before v
\* or V is discarded and does not apply to the first Visual motion.
C28_ModeSwitchClearsCount ==
    [][(/\ mode = Normal
        /\ pending[1] # "F"
        /\ ev'.t = "Key" /\ ev'.code = "Char"
        /\ ev'.ch \in ModeSwitchKeys)
       => (counts' = None /\ pending' = PendingNone)]_vars

\* the part of C28 the code keeps: i, a, I, A clear count and pending_key,
\* and v, V clear pending_key
C28_InsertSwitchClearsCount ==
    [][(/\ mode = Normal
        /\ pending[1] # "F"
        /\ ev'.t = "Key" /\ ev'.code = "Char"
        /\ ev'.ch \in ModeSwitchKeys)
       => /\ pending' = PendingNone
          /\ ev'.ch \in {"i", "a", "I", "A"} => counts' = None]_vars

\* C29: a pending g started in Visual mode is cancelled by any following key
\* other than g and never survives leaving Visual: after v g l, or after v g v
\* and v g d, pending_key is None, so a following single g does not act as
\* gg.
C29_VisualPendingGCancelled ==
    [][(/\ mode[1] = "Visual"
        /\ pending = PendingG
        /\ ev' # Key("g"))
       => pending' = PendingNone]_vars

\* the part of C29 the code keeps: Esc cancels a g pending in Visual mode
C29_VisualEscCancelsPendingG ==
    [][(mode[1] = "Visual" /\ pending = PendingG /\ ev' = KeyEsc)
       => (pending' = PendingNone /\ mode' = Normal)]_vars

\* v g v: back in Normal mode with the g still pending
C29_PendingGLeavesVisual ==
    /\ mode = Normal
    /\ ev = Key("v")
    /\ pending = PendingG

\* C30: in Visual mode a numeric prefix applies to the next motion as in
\* Normal mode: a digit 1-9 accumulates a count and n followed by a motion
\* moves n steps (2 l moves the cursor two graphemes right, and the d that
\* follows deletes from the anchor through the grapheme under that cursor).
C30_VisualCountApplies ==
    (mode[1] = "Visual" /\ counts = None /\ visual_anchor # None) =>
        \A c \in HostCursors :
            LET start == clamp(text, c)
                target == move_right(text, start, 2)
                two == handle_event(engine, text, c, Key("2"))
                l == handle_event(two.eng, text, two.pos, Key("l"))
                d == handle_event(l.eng, text, l.pos, Key("d"))
            IN  /\ two.eng.counts = Some(2)
                /\ two.pos = start /\ two.cmds = <<>>
                /\ l.pos = target
                /\ l.eng.counts = None
                /\ mode[2] = "CharWise" =>
                       d.cmds = <<Delete(MinPos(visual_anchor[1], target),
                                         move_right(text,
                                                    MaxPos(visual_anchor[1], target),
                                                    1)),
                                  SetSelection(None)>>

\* what the code does with a digit 1-9 in Visual mode: nothing at all
C30_VisualDigitIgnored ==
    [][(mode[1] = "Visual" /\ ev' = Key("2"))
       => (engine' = engine /\ pos' = clamp(text, cur') /\ cmds' = <<>>)]_vars

\* v 2 on "ld d": still in Visual mode, no count
C30_VisualDigitReached ==
    /\ text = TextBuffer
    /\ mode = Visual("CharWise")
    /\ ev = Key("2")
    /\ counts = None

\* the target of a line-grained motion as the operator block computes it (no
\* preferred column for j and k)
LineMotionTarget(T, k, c, n) ==
    CASE k = "j" -> move_down(T, c, n, None)
      [] k = "k" -> move_up(T, c, n, None)
      [] k = "{" -> prev_paragraph_start(T, c, n)
      [] k = "}" -> next_paragraph_start(T, c, n)

LineMotionKeys == {"j", "k", "{", "}"}

C31_WitnessParagraph ==
    /\ text = TextBuffer
    /\ ev = Key("}")
    /\ cur = Position(0, 0)
    /\ cmds = <<Delete(Position(0, 0), Position(2, 0))>>

\* C32: across a run of consecutive j/k motions the starting column is
\* remembered: from column c, moving onto a line too short for c and then
\* onto a line that has column c returns the cursor to column c.
C32_PreferredColumnRemembered ==
    (/\ mode = Normal /\ op_pending = None /\ pending = PendingNone
     /\ counts = None /\ preferred_col = None) =>
        \A c \in HostCursors :
            LET start == clamp(text, c)
                j == handle_event(engine, text, c, Key("j"))
                jj == handle_event(j.eng, text, j.pos, Key("j"))
                k == handle_event(engine, text, c, Key("k"))
                kk == handle_event(k.eng, text, k.pos, Key("k"))
            IN  /\ (/\ start.line + 2 < line_count(text)
                    /\ line_len(text, start.line + 1) <= start.col
                    /\ line_len(text, start.line + 2) > start.col)
                   => jj.pos = Position(start.line + 2, start.col)
                /\ (/\ start.line >= 2
                    /\ line_len(text, start.line - 1) <= start.col
                    /\ line_len(text, start.line - 2) > start.col)
                   => kk.pos = Position(start.line - 2, start.col)

\* what the code does: j and k store the column they arrive at, so the
\* column handed to the next move_up/move_down is the one of the last result
C32_PreferredColumnIsLastResult ==
    [][(/\ mode = Normal /\ op_pending = None /\ pending[1] # "F"
        /\ ev' \in {Key("j"), Key("k")})
       => preferred_col' = Some(pos'.col)]_vars

\* l, j, j from the start of "ld d\n\ndl": after the empty line the cursor is
\* at column 0 of line 2, not back at column 1
C32_ColumnForgotten ==
    /\ text = TextBuffer
    /\ ev = Key("j")
    /\ cur = Position(1, 0)
    /\ pos = Position(2, 0)
    /\ preferred_col = Some(0)

\* C34: the engine never emits a Delete whose range is empty (start = end):
\* an operator whose motion does not move the cursor (d h at column 0, d l at
\* the end of a line, d 0 at column 0, d w at the end of the buffer) emits no
\* command, as x at the end of a line emits none.
C34_NoEmptyDelete ==
    \A i \in Deletes(cmds) : cmds[i].start # cmds[i].end

\* the part of C34 the code keeps: x never emits an empty Delete
C34_XNeverEmpty ==
    (ev = Key("x") /\ mode = Normal) =>
        \A i \in Deletes(cmds) : cmds[i].start # cmds[i].end

\* d h at the start of "ld d": a Delete of nothing
C34_EmptyDeleteReached ==
    /\ text = TextBuffer
    /\ ev = Key("h")
    /\ cur = Position(0, 0)
    /\ cmds = <<Delete(Position(0, 0), Position(0, 0))>>

\* the key k completes the pending key p: g after g, d after d, any
\* character after f or t
Completes(p, k) ==
    /\ k.code = "Char"
    /\ \/ (p = PendingG /\ k.ch = "g")
       \/ (p = PendingD /\ k.ch = "d")
       \/ p[1] = "F"

\* C36: in Normal mode a key that does not complete the current pending_key
\* gives exactly the same returned cursor, commands and next state as the
\* same key from the same state with pending_key = None; so after any
\* Normal-mode key event pending_key is non-None only if the key was g, d, f
\* or t.
C36_PendingFallThrough ==
    mode = Normal =>
        \A c \in HostCursors, k \in KeyEvents :
            LET r == handle_event(engine, text, c, k)
            IN  /\ ~Completes(pending, k) =>
                       r = handle_event([engine EXCEPT !.pending = PendingNone],
                                        text, c, k)
                /\ r.eng.pending # PendingNone =>
                       (k.code = "Char" /\ k.ch \in {"g", "d", "f", "t"})

\* d then l on "ld d": the pending d was dropped and l resolved the operator
\* as it does without a pending key
C36_Witness ==
    /\ text = TextBuffer
    /\ mode = Normal
    /\ ev = Key("l")
    /\ cur = Position(0, 0)
    /\ cmds = <<Delete(Position(0, 0), Position(0, 1))>>
    /\ pending = PendingNone

\* g then Enter: the pending g is dropped by a key the engine does not know
C36_WitnessUnknownKey ==
    /\ mode = Normal
    /\ ev = KeyEnter
    /\ pending = PendingNone
    /\ cmds = <<>>

\* an event the current mode has no arm for: ReceivedChar in Normal or Visual
\* mode, a key other than Esc in Insert mode
UnhandledCall ==
    \/ (mode # Insert /\ ev'.t = "ReceivedChar")
    \/ (mode = Insert /\ ev'.t = "Key" /\ ev'.code # "Esc")

C37_WitnessVisualChar ==
    /\ mode[1] = "Visual"
    /\ ev = ReceivedChar("x")
    /\ pending = PendingG
    /\ cmds = <<>>
    /\ pos = clamp(text, cur)

\* C38: in every reachable state pending_key = D implies op_pending = Delete
\* and mode = Normal, and pending_key = D arises only from the operator key d
\* (it survives only events that are not keys), so the linewise d d delete can
\* fire only when the most recent key event was d.
C38_PendingDImpliesDelete ==
    [][pending' = PendingD =>
           /\ op_pending' = Some("Delete")
           /\ mode' = Normal
           /\ \/ ev' = Key("d")
              \/ (ev'.t = "ReceivedChar" /\ pending = PendingD)]_vars

\* 2 d on "ld d": the operator key left pending_key = D with the count kept
C38_Witness ==
    /\ pending = PendingD
    /\ op_pending = Some("Delete")
    /\ mode = Normal
    /\ ev = Key("d")
    /\ counts = Some(2)
    /\ text = TextBuffer

\* the linewise delete fired: the second d of d d on line 0 of "ld d"
C38_WitnessFired ==
    /\ ev = Key("d")
    /\ text = TextBuffer
    /\ cmds = <<Delete(Position(0, 0), Position(1, 0))>>
    /\ pending = PendingNone
    /\ op_pending = None

C39_WitnessMotion ==
    /\ mode = Normal
    /\ ev = Key("w")
    /\ cur = Position(0, 0)
    /\ text = TextBuffer
    /\ cmds = <<SetCursor(Position(0, 3))>>
    /\ pos = Position(0, 3)

\* the count d d works with: the typed count, 1 when none was typed
EffectiveCountU32 == IF counts = None THEN U32(1) ELSE counts[1]

\* min(L + count - 1, line_count - 1) computed without a width
LastDeletedLine(L) ==
    LET n == line_count(text)
    IN  IF u32_le(U32(n), EffectiveCountU32) THEN n - 1
        ELSE Min(L + EffectiveCountU32[2] - 1, n - 1)

\* the sum cursor.line + count fits the u32
DdSumFits(L) == ~overflowing_add(U32(L), EffectiveCountU32).overflow

\* C33: for every count up to the saturated maximum 2^32-1 and every cursor
\* line L, d d computes its last deleted line as
\* min(L + count - 1, line_count - 1) without u32 overflow or wrap-around:
\* handle_event returns normally and the emitted range is
\* [(L,0),(last_line+1,0)) with last_line >= L.
C33_DdEndLineNoOverflow ==
    pending = PendingD =>
        \A c \in WideCursors :
            \A r \in handle_event_u32(engine, text, c, Key("d")) :
                /\ ~r.panicked
                /\ LastDeletedLine(c.line) >= c.line
                /\ r.cmds = <<Delete(Position(c.line, 0),
                                     Position(LastDeletedLine(c.line) + 1, 0))>>

\* the same holds of every d d whose sum cursor.line + count fits the u32
C33_DdEndLineWhenSumFits ==
    pending = PendingD =>
        \A c \in WideCursors :
            DdSumFits(c.line) =>
                \A r \in handle_event_u32(engine, text, c, Key("d")) :
                    /\ ~r.panicked
                    /\ r.cmds = <<Delete(Position(c.line, 0),
                                         Position(LastDeletedLine(c.line) + 1, 0))>>

\* a build without overflow checks: d d on line 2 with the saturated count
\* returned a range that starts on line 1
C33_WrappedRangeReached ==
    /\ ev = Key("d")
    /\ cur = Position(2, 1)
    /\ cmds = <<Delete(Position(1, 0), Position(2, 0))>>
    /\ pos = Position(2, 0)

\* the saturated count is pending with the operator
C33_SaturatedCountReached ==
    /\ pending = PendingD
    /\ counts = Some(U32_MAX)

\* min(count * 10 + digit, 2^32 - 1) computed at full precision
PushedCount(count, d) ==
    LET lo == count[2] * 10 + d
        hi == count[1] * 10 + (lo \div Limb)
    IN  IF hi >= Limb THEN U32_MAX ELSE <<hi, lo % Limb>>

\* C35: in Normal mode with no f/t pending a digit key sets count to
\* min(count*10 + digit, 2^32-1) (count taken as 0 when absent), emits no
\* command and returns the cursor unchanged, except that '0' with no count in
\* progress is the line-start motion; so the stored count is never 0 and every
\* count the engine hands to a TextOps operation is >= 1.
C35_DigitAccumulates ==
    [][/\ (ev'.code = "Char" /\ ev'.ch \in Digits) =>
              IF ev'.ch = "0" /\ counts = None
              THEN /\ counts' = None
                   /\ op_pending = None =>
                          /\ pos' = line_start(text, clamp(text, cur').line)
                          /\ cmds' = <<SetCursor(pos')>>
              ELSE /\ counts' = Some(PushedCount(unwrap_or(counts, U32(0)),
                                                 DigitValue(ev'.ch)))
                   /\ cmds' = <<>>
                   /\ pos' = clamp(text, cur')
       /\ counts' # Some(U32(0))
       /\ \A c \in WideCursors, k \in WideKeyEvents :
              \A r \in handle_event_u32(engine, text, c, k) :
                  \A i \in 1..Len(r.given) : u32_le(U32(1), r.given[i])]_vars

\* 9 typed after 429496729: the product fits, the sum does not, the count
\* saturates
C35_Witness ==
    /\ mode = Normal
    /\ ev = Key("9")
    /\ counts = Some(U32_MAX)
    /\ cmds = <<>>
    /\ pos = clamp(text, cur)

\* 0 with no count in progress moved to the start of the line
C35_WitnessZeroMotion ==
    /\ ev = Key("0")
    /\ counts = None
    /\ cur = Position(0, 3)
    /\ cmds = <<SetCursor(Position(0, 0))>>

\* 0 after a count multiplied it by ten
C35_WitnessZeroDigit ==
    /\ ev = Key("0")
    /\ counts = Some(U32(90))
    /\ cmds = <<>>

\* ids of the recordings metadata.json holds
StoredIds ==
    LET recordings == list_recordings(metadata)
    IN  {recordings[i].id : i \in 1..Len(recordings)}

AllReturned == \A c \in Calls : calls[c].pc \in {"ok", "err"}

\* C40: recording metadata updates are not lost under concurrency: when
\* commands that read-modify-write metadata.json (stop_recording,
\* transcribe_recording, delete_recording; upload_audio_file updates it as
\* stop_recording does) run interleaved, the metadata contains every recording
\* added by a command that returned and none deleted by one, i.e. no
\* command's save_metadata overwrites another's update with a stale list.
C40_NoLostUpdate ==
    /\ \A c \in StopCalls : calls[c].pc = "ok" => c \in StoredIds
    /\ \A c \in DeleteCalls :
           calls[c].pc = "ok" => recording_id(c) \notin StoredIds

\* the audio lock serialises the stop_recording invocations: while no other
\* command has started, no stop loses the recording of another
C40_StopsKeepEachOther ==
    (\A c \in TranscribeCalls \cup DeleteCalls : calls[c].pc = "idle") =>
        \A c \in StopCalls : calls[c].pc = "ok" => c \in StoredIds

\* both stops have returned with no other command started
C40_TwoStopsReached ==
    /\ \A c \in StopCalls : calls[c].pc = "ok"
    /\ \A c \in TranscribeCalls \cup DeleteCalls : calls[c].pc = "idle"
    /\ StopCalls \subseteq StoredIds

\* every command has returned, a stop succeeded and its recording is not in
\* metadata.json
C40_RecordingLostReached ==
    /\ AllReturned
    /\ \E c \in StopCalls : calls[c].pc = "ok" /\ c \notin StoredIds

\* every command has returned, the delete succeeded and the recording it
\* removed is back in metadata.json
C40_DeletedRestoredReached ==
    /\ AllReturned
    /\ \E c \in DeleteCalls :
           calls[c].pc = "ok" /\ recording_id(c) \in StoredIds

====
